---- MODULE Spec2Model ----
(***************************************************************************)
(* Clip-feature extraction pipeline (main.py, utils/utils.py).             *)
(*                                                                         *)
(* Two specifications share the variables below.                           *)
(*   UnitSpec  applies the clip indexer, the batch partitioner, the        *)
(*             caller's unpacking of the partitioner's result and the      *)
(*             L2 normalisation to inputs drawn from bounded sets.         *)
(*   Spec      is the pipeline driver generate(): clear the scratch        *)
(*             directory, decode the video's frames into it through the    *)
(*             thread pool, run the feature aggregator, save.              *)
(*                                                                         *)
(* Python values that can be an exception are records                      *)
(*   [status |-> "ok" or the exception's name, val |-> the value].         *)
(* A frame file is named by its index i ('image%d.jpg' % i), and natsorted *)
(* orders such names by that number.                                       *)
(***************************************************************************)
EXTENDS Integers, Sequences, FiniteSets, TLC

\* ---------------------------------------------------------------- bounds
MaxFrameCount == 8
MaxChunk == 3
MaxFrequency == 3
MaxBatchSize == 3
MaxRows == 2
EmbDim == 2
MaxVal == 2
MaxVideos == 2
MaxVideoFrames == 3
MaxLeftover == 3

VARIABLES
    op, args, ret,                  \* UnitSpec: the function applied, its arguments, what it returned
    videos, clip_size, batch_size,  \* generate(): frame count of each discovered video, CLI arguments
    feature,                        \* generate(): "I3D" or "C3D"
    leftover,                       \* number of frame files a previous run left in temp/
    temp,                           \* the scratch directory: set of [name, video, frame]
    pc, video_idx,                  \* position of generate() and the video it is at
    queue, running,                 \* ThreadPoolExecutor: submitted tasks not started, tasks being run
    out_of_order,                   \* a write finished before a write submitted earlier
    saved,                          \* videos whose feature array np.save wrote
    features,                       \* what the last call of the feature aggregator returned
    err                             \* the message or exception the process ended with

unitVars == <<op, args, ret>>
driverVars == <<videos, clip_size, batch_size, feature, leftover, temp, pc, video_idx,
                queue, running, out_of_order, saved, features, err>>
vars == <<op, args, ret, videos, clip_size, batch_size, feature, leftover, temp, pc,
          video_idx, queue, running, out_of_order, saved, features, err>>

\* ------------------------------------------------------- Python values
Ok(v) == [status |-> "ok", val |-> v]
Raise(e) == [status |-> e, val |-> <<>>]
None == [status |-> "none", val |-> <<>>]

\* range(a, b) as a sequence
Range(a, b) == [k \in 1..(b - a) |-> a + k - 1]

\* Binding positional arguments to a function with nparams required parameters
\* and no defaults: TypeError unless the counts agree.
PyCall(nparams, actuals) ==
    IF Len(actuals) # nparams THEN Raise("TypeError") ELSE Ok(actuals)

\* --------------------------------------------------- utils.py: clip indexer
from_frames_to_clips_params == 3

EnoughFrames_weak(frame_cnt, chunk_size) == frame_cnt >= chunk_size

\* assert(frame_cnt > chunk_size)
EnoughFrames(frame_cnt, chunk_size) == frame_cnt > chunk_size

ChunkCount_short(clipped_length, frequency) == clipped_length \div frequency

\* range(clipped_length // frequency + 1)
ChunkCount(clipped_length, frequency) == clipped_length \div frequency + 1

from_frames_to_clips(frames, chunk_size, frequency) ==
    LET frame_cnt == Len(frames) IN
    IF ~EnoughFrames(frame_cnt, chunk_size) THEN Raise("AssertionError")
    ELSE LET clipped_length == ((frame_cnt - chunk_size) \div frequency) * frequency
         IN Ok([i \in 1..ChunkCount(clipped_length, frequency) |->
                    Range((i - 1) * frequency, (i - 1) * frequency + chunk_size)])

\* ----------------------------------------------- utils.py: batch partitioner
\* int(np.ceil(chunk_num / batch_size))
BatchNum(chunk_num, bsize) ==
    IF chunk_num % bsize = 0 THEN chunk_num \div bsize
    ELSE chunk_num \div bsize + 1

SectionSizes_greedy(Ntotal, Nsections) ==
    LET cap == IF Ntotal % Nsections = 0 THEN Ntotal \div Nsections
               ELSE Ntotal \div Nsections + 1
    IN [s \in 1..Nsections |->
            IF s * cap <= Ntotal THEN cap
            ELSE IF (s - 1) * cap < Ntotal THEN Ntotal - (s - 1) * cap ELSE 0]

SectionSizes_tail(Ntotal, Nsections) ==
    [s \in 1..Nsections |->
        IF s > Nsections - (Ntotal % Nsections) THEN Ntotal \div Nsections + 1
        ELSE Ntotal \div Nsections]

\* np.array_split: Neach_section, extras = divmod(Ntotal, Nsections); the first
\* `extras` sections hold Neach_section + 1 rows, the others Neach_section
SectionSizes(Ntotal, Nsections) ==
    [s \in 1..Nsections |->
        IF s <= Ntotal % Nsections THEN Ntotal \div Nsections + 1
        ELSE Ntotal \div Nsections]

RECURSIVE SumTo(_, _)
SumTo(sizes, s) == IF s = 0 THEN 0 ELSE sizes[s] + SumTo(sizes, s - 1)

\* np.array_split(ary, Nsections, axis=0): consecutive slices at the cumulative sizes
array_split(ary, Nsections) ==
    LET sizes == SectionSizes(Len(ary), Nsections)
    IN [s \in 1..Nsections |->
            SubSeq(ary, SumTo(sizes, s - 1) + 1, SumTo(sizes, s))]

\* np.asarray of the list of sub-arrays. Sub-arrays of one shape stack into one
\* array. A ragged list becomes an object array of the sub-arrays (NumPy < 1.24)
\* or raises ValueError (NumPy >= 1.24): both outcomes are kept.
np_asarray(parts) ==
    IF \A i, j \in DOMAIN parts : Len(parts[i]) = Len(parts[j])
    THEN {Ok(parts)}
    ELSE {Ok(parts), Raise("ValueError")}

\* The set of results the call can have.
split_clip_indices_into_batches(frame_indices, bsize) ==
    LET chunk_num == Len(frame_indices)
        batch_num == BatchNum(chunk_num, bsize)
    IN np_asarray(array_split(frame_indices, batch_num))

\* main.py `frame_indices, k = split_clip_indices_into_batches(...)`: the returned
\* ndarray is iterated along its first axis, so the targets receive its sub-arrays.
UnpackPair(value) ==
    IF Len(value) # 2 THEN Raise("ValueError")
    ELSE Ok([frame_indices |-> value[1], k |-> [tag |-> "ndarray", data |-> value[2]]])

\* ------------------------------------------------ main.py: L2 normalisation
RECURSIVE SumSq(_, _)
SumSq(x, n) == IF n = 0 THEN 0 ELSE x[n] * x[n] + SumSq(x, n - 1)

RECURSIVE SumSqRows(_, _)
SumSqRows(v, n) == IF n = 0 THEN 0 ELSE SumSq(v[n], Len(v[n])) + SumSqRows(v, n - 1)

\* torch.linalg.norm(v) with no dim: v is flattened and its 2-norm taken; the
\* operator is the square of that norm.
linalg_norm_sq(v) == SumSqRows(v, Len(v))

\* v / torch.linalg.norm(v): row r of the result is num / sqrt(den_sq), entry by
\* entry (den_sq = 0 gives NaN entries).
L2Normalize(v) == [r \in DOMAIN v |-> [num |-> v[r], den_sq |-> linalg_norm_sq(v)]]

\* Euclidean norm of a normalised row is 1
UnitNorm(x) == x.den_sq > 0 /\ SumSq(x.num, Len(x.num)) = x.den_sq

\* What the extractor can return for a batch of rows clips
Embeddings(rows) == [1..rows -> [1..EmbDim -> 0..MaxVal]]

\* --------------------------------------------------------------- UnitSpec
DriverIdle ==
    /\ videos = <<>> /\ clip_size = 1 /\ batch_size = 1 /\ feature = "I3D"
    /\ leftover = 0 /\ temp = {} /\ pc = "idle" /\ video_idx = 0
    /\ queue = <<>> /\ running = {} /\ out_of_order = FALSE /\ saved = {}
    /\ features = None /\ err = ""

UnitInit == op = "start" /\ args = <<>> /\ ret = None /\ DriverIdle

IndexClips ==
    /\ op = "start"
    /\ \E fc \in 0..MaxFrameCount, cs \in 1..MaxChunk, fr \in 1..MaxFrequency :
          /\ op' = "from_frames_to_clips"
          /\ args' = <<Range(0, fc), cs, fr>>
          /\ ret' = from_frames_to_clips(Range(0, fc), cs, fr)
    /\ UNCHANGED driverVars

Partition ==
    /\ op = "from_frames_to_clips" /\ ret.status = "ok"
    /\ \E bs \in 1..MaxBatchSize :
          \E r \in split_clip_indices_into_batches(ret.val, bs) :
              /\ op' = "split_clip_indices_into_batches"
              /\ args' = <<ret.val, bs>>
              /\ ret' = r
    /\ UNCHANGED driverVars

Unpack ==
    /\ op = "split_clip_indices_into_batches" /\ ret.status = "ok"
    /\ op' = "unpack"
    /\ args' = <<ret.val>>
    /\ ret' = UnpackPair(ret.val)
    /\ UNCHANGED driverVars

Normalize ==
    /\ op = "start"
    /\ \E rows \in 1..MaxRows : \E v \in Embeddings(rows) :
          /\ op' = "normalize"
          /\ args' = <<v>>
          /\ ret' = L2Normalize(v)
    /\ UNCHANGED driverVars

UnitNext == IndexClips \/ Partition \/ Unpack \/ Normalize

UnitSpec == UnitInit /\ [][UnitNext]_vars

\* ------------------------------------------------------- UnitSpec: claims
BatchSizes == [s \in DOMAIN ret.val |-> Len(ret.val[s])]

MaxBatchLen == CHOOSE m \in {BatchSizes[s] : s \in DOMAIN BatchSizes} :
                   \A s \in DOMAIN BatchSizes : BatchSizes[s] <= m

Partitioned == op = "split_clip_indices_into_batches" /\ ret.status = "ok"

\* C4: for frame_count > clip_length the clip indexer returns
\* ((frame_count - clip_length) // frequency) + 1 windows, window i being the
\* frame indices i*frequency .. i*frequency + clip_length - 1, and the last
\* window ends at or before frame_count.
C4_ClipWindows ==
    (op = "from_frames_to_clips" /\ Len(args[1]) > args[2]) =>
        /\ ret.status = "ok"
        /\ Len(ret.val) = ((Len(args[1]) - args[2]) \div args[3]) + 1
        /\ \A i \in 0..(Len(ret.val) - 1) :
              /\ Len(ret.val[i + 1]) = args[2]
              /\ \A j \in 1..args[2] : ret.val[i + 1][j] = i * args[3] + (j - 1)
        /\ ret.val[Len(ret.val)][args[2]] + 1 <= Len(args[1])

C4_Witness ==
    /\ op = "from_frames_to_clips" /\ ret.status = "ok"
    /\ args[3] >= 2 /\ args[2] >= 2 /\ Len(ret.val) >= 3
    /\ (Len(args[1]) - args[2]) % args[3] # 0

\* C5: the clip indexer fails (AssertionError, no windows) whenever
\* frame_count <= clip_length, equality included, and succeeds only when
\* frame_count > clip_length.
C5_InsufficientFrames ==
    op = "from_frames_to_clips" =>
        /\ (Len(args[1]) <= args[2]) => (ret.status = "AssertionError" /\ ret.val = <<>>)
        /\ (ret.status = "ok") => (Len(args[1]) > args[2])

C5_Witness ==
    /\ op = "from_frames_to_clips" /\ Len(args[1]) = args[2]
    /\ ret.status = "AssertionError"

C3_ValidCount ==
    op = "unpack" =>
        /\ ret.status = "ok"
        /\ ret.val.k.tag = "int"
        /\ ret.val.k.data = Len(args[1][Len(args[1])])

\* C6: every row of the normalised batch whose raw embedding is non-zero has
\* Euclidean norm 1.
C6_RowUnitNorm ==
    op = "normalize" =>
        \A r \in DOMAIN ret :
            SumSq(args[1][r], EmbDim) > 0 => UnitNorm(ret[r])

\* ------------------------------------------- main.py: feature aggregator
load_rgb_batch_params == 3

RECURSIVE SortedSeq(_)
SortedSeq(S) ==
    IF S = {} THEN <<>>
    ELSE LET m == CHOOSE x \in S : \A y \in S : x <= y
         IN <<m>> \o SortedSeq(S \ {m})

\* natsorted(os.listdir(temp_path)): the file names in natural (numeric) order
natsorted(dir) == SortedSeq({f.name : f \in dir})

RECURSIVE ConcatRows(_, _, _, _)
ConcatRows(batch_id, n_batches, n_clips, k) ==
    IF batch_id > n_batches THEN <<>>
    ELSE LET keep == IF batch_id = n_batches
                     THEN (IF k < n_clips THEN k ELSE n_clips)
                     ELSE n_clips
         IN [r \in 1..keep |-> <<batch_id, r>>]
                \o ConcatRows(batch_id + 1, n_batches, n_clips, k)

\* "from fixed tensor to variable length list": the rows of every batch, those of
\* the last batch cut to [:k]; a row is named <<batch, position>>. Slicing with a
\* k that is an array and not an integer raises TypeError.
assemble(n_batches, n_clips_inside_a_batch, k) ==
    IF k.tag # "int" THEN Raise("TypeError")
    ELSE Ok(ConcatRows(1, n_batches, n_clips_inside_a_batch, k.data))

\* Body of extract_i3d_features / extract_c3d_features, as the set of results
\* it can have. The calls bind their actual arguments first: from_frames_to_clips
\* is called with two, load_rgb_batch with four. The first exception ends the
\* function; the batch loop is followed up to its first load_rgb_batch call, the
\* extractor call and the normalisation (Normalize above) leave the row count
\* alone, and assemble is the final reshaping.
extract_features(rgb_files, clip_length, bsize) ==
    LET b1 == PyCall(from_frames_to_clips_params, <<rgb_files, clip_length>>)
    IN IF b1.status # "ok" THEN {b1}
       ELSE LET clips == from_frames_to_clips(b1.val[1], b1.val[2], b1.val[3])
            IN IF clips.status # "ok" THEN {clips}
               ELSE UNION {
                 IF sp.status # "ok" THEN {sp}
                 ELSE LET un == UnpackPair(sp.val)
                      IN IF un.status # "ok" THEN {un}
                         ELSE LET frame_indices == un.val.frame_indices
                                  n_batches == Len(frame_indices)
                                  n_clips_inside_a_batch == Len(frame_indices[1])
                                  b2 == PyCall(load_rgb_batch_params,
                                               <<"temp_path", rgb_files, frame_indices[1], "device">>)
                              IN IF b2.status # "ok" THEN {b2}
                                 ELSE {assemble(n_batches, n_clips_inside_a_batch, un.val.k)}
                 : sp \in split_clip_indices_into_batches(clips.val, bsize) }

extract_i3d_features(rgb_files, clip_length, bsize) ==
    extract_features(rgb_files, clip_length, bsize)

extract_c3d_features(rgb_files, clip_length, bsize) ==
    extract_features(rgb_files, clip_length, bsize)

\* ------------------------------------------------ main.py: pipeline driver
max_workers == 8

RemoveAll_none(dir) == dir

\* for f in Path(temp_path).glob('**/*'): os.remove(f)
RemoveAll(dir) == {}

NoFrames_never(frame_count) == FALSE

\* if frame_count == 0: exit("Video file not found")
NoFrames(frame_count) == frame_count = 0

\* cv2.imwrite(path, frame): creates or overwrites the file of that name
imwrite(dir, name, video, frame) ==
    {f \in dir : f.name # name} \cup {[name |-> name, video |-> video, frame |-> frame]}

PoolIdle_nowait == TRUE

\* leaving `with ThreadPoolExecutor(...)`: shutdown(wait=True) returns once every
\* submitted task has run
PoolIdle == queue = <<>> /\ running = {}

VideoLists == UNION {[1..n -> 0..MaxVideoFrames] : n \in 0..MaxVideos}

Init ==
    /\ op = "none" /\ args = <<>> /\ ret = None
    /\ videos \in VideoLists
    /\ clip_size \in 1..MaxChunk
    /\ batch_size \in 1..MaxBatchSize
    /\ feature \in {"I3D", "C3D"}
    /\ leftover \in 0..MaxLeftover
    /\ temp = {[name |-> i, video |-> 0, frame |-> i] : i \in 0..(leftover - 1)}
    /\ pc = IF videos = <<>> THEN "done" ELSE "clear"
    /\ video_idx = 1
    /\ queue = <<>> /\ running = {} /\ out_of_order = FALSE
    /\ saved = {}
    /\ features = [status |-> "none", val |-> <<>>, video |-> 0]
    /\ err = ""

\* generate(): remove files into temp folder
ClearTemp ==
    /\ pc = "clear"
    /\ temp' = RemoveAll(temp)
    /\ pc' = "extract_frames"
    /\ UNCHANGED <<unitVars, videos, clip_size, batch_size, feature, leftover, video_idx,
                   queue, running, out_of_order, saved, features, err>>

\* extract_frames_from_video up to executor.map, which submits every write
ExtractFrames ==
    /\ pc = "extract_frames"
    /\ LET frame_count == videos[video_idx]
       IN IF NoFrames(frame_count)
          THEN /\ pc' = "exit"
               /\ err' = "Video file not found"
               /\ UNCHANGED queue
          ELSE /\ pc' = "pool"
               /\ queue' = Range(0, frame_count)
               /\ UNCHANGED err
    /\ UNCHANGED <<unitVars, videos, clip_size, batch_size, feature, leftover, temp,
                   video_idx, running, out_of_order, saved, features>>

\* a pool thread takes the next submitted task
WorkerTake ==
    /\ queue # <<>>
    /\ Cardinality(running) < max_workers
    /\ running' = running \cup {Head(queue)}
    /\ queue' = Tail(queue)
    /\ UNCHANGED <<unitVars, videos, clip_size, batch_size, feature, leftover, temp, pc,
                   video_idx, out_of_order, saved, features, err>>

\* a pool thread runs cv2.imwrite(frames_paths[i], frames_to_save[i])
WorkerWrite ==
    \E i \in running :
        /\ temp' = imwrite(temp, i, video_idx, i)
        /\ running' = running \ {i}
        /\ out_of_order' = (out_of_order \/ \E j \in running : j < i)
        /\ UNCHANGED <<unitVars, videos, clip_size, batch_size, feature, leftover, pc,
                       video_idx, queue, saved, features, err>>

\* the `with` block ends: extract_frames_from_video returns
PoolExit ==
    /\ pc = "pool"
    /\ PoolIdle
    /\ pc' = "features"
    /\ UNCHANGED <<unitVars, videos, clip_size, batch_size, feature, leftover, temp,
                   video_idx, queue, running, out_of_order, saved, features, err>>

\* generate(): extract features, save them, go to the next video; an exception
\* of the aggregator is not caught and ends the run
Features ==
    /\ pc = "features"
    /\ \E r \in (IF feature = "I3D"
                 THEN extract_i3d_features(natsorted(temp), clip_size, batch_size)
                 ELSE extract_c3d_features(natsorted(temp), clip_size, batch_size)) :
          /\ features' = [status |-> r.status, val |-> r.val, video |-> video_idx]
          /\ IF r.status = "ok"
             THEN /\ saved' = saved \cup {video_idx}
                  /\ video_idx' = IF video_idx < Len(videos) THEN video_idx + 1 ELSE video_idx
                  /\ pc' = IF video_idx < Len(videos) THEN "clear" ELSE "done"
                  /\ UNCHANGED err
             ELSE /\ pc' = "raised"
                  /\ err' = r.status
                  /\ UNCHANGED <<saved, video_idx>>
    /\ UNCHANGED <<unitVars, videos, clip_size, batch_size, feature, leftover, temp,
                   queue, running, out_of_order>>

Next == ClearTemp \/ ExtractFrames \/ WorkerTake \/ WorkerWrite \/ PoolExit \/ Features

Spec == Init /\ [][Next]_vars

\* ---------------------------------------------------------- Spec: claims
AtVideo == video_idx \in DOMAIN videos

\* C7: once a video with zero frames has been opened the run is over: the
\* process has exited with the message, nothing more can happen, the aggregator
\* was not run and neither that video nor a later one has a saved array.
C7_ZeroFramesFatal ==
    (AtVideo /\ videos[video_idx] = 0 /\ pc \notin {"clear", "extract_frames"}) =>
        /\ pc = "exit"
        /\ err = "Video file not found"
        /\ ~ENABLED Next
        /\ features.status = "none"
        /\ \A j \in video_idx..Len(videos) : j \notin saved

C7_Witness ==
    /\ pc = "exit" /\ Len(videos) > video_idx
    /\ videos[video_idx] = 0 /\ videos[video_idx + 1] > 0

\* C9: when the feature aggregator starts for a video, every file of the
\* scratch directory is a frame decoded from that video.
C9_ScratchOnlyCurrentVideo ==
    pc = "features" => \A f \in temp : f.video = video_idx

C9_Witness ==
    /\ pc = "features" /\ temp # {}
    /\ leftover > videos[video_idx]

\* C10: when extract_frames_from_video has returned, the scratch directory
\* holds exactly the video's frame_count frames, frame i under name i, no write
\* is pending, and the listing is 0 .. frame_count - 1, whatever the order in
\* which the pool ran the writes.
C10_AllFramesWritten ==
    pc = "features" =>
        /\ temp = {[name |-> i, video |-> video_idx, frame |-> i] :
                      i \in 0..(videos[video_idx] - 1)}
        /\ natsorted(temp) = Range(0, videos[video_idx])
        /\ queue = <<>> /\ running = {}

C10_Witness ==
    /\ pc = "features" /\ out_of_order
    /\ videos[video_idx] >= 3

\* C1: once the feature aggregator has run for a video with more frames than
\* clip_length, it has returned an array with one row per clip window.
C1_OneRowPerWindow ==
    (features.status # "none" /\ videos[features.video] > clip_size) =>
        /\ features.status = "ok"
        /\ \E fr \in 1..MaxFrequency :
              Len(features.val) = ((videos[features.video] - clip_size) \div fr) + 1

====
